---- MODULE Spec2Model ----
(***************************************************************************)
(* The PostgresCluster reconciler of internal/controller/postgrescluster:  *)
(* Reconciler.Reconcile run by workerCount workers against one stored      *)
(* PostgresCluster, and the result aggregation it uses.                    *)
(***************************************************************************)
EXTENDS Naturals, Sequences, FiniteSets, TLC

\* ------------------------------------------------------------------ bounds

\* Highest metadata.generation the stored cluster reaches (spec updates).
MaxGeneration == 2
\* Most instance sets a cluster spec declares.
MaxSets == 2
\* Longest sequence of stage outcomes folded by the aggregator.
MaxOutcomes == 3
\* Most instance sets of the cluster followed for convergence.
LiveSets == 1

\* ------------------------------------------------------- program constants

workerCount == 2

Workers == 1..workerCount

\* r.Owner, the field manager every write is tagged with.
Owner == "r.Owner"

\* ---------------------------------------------------------------- results

\* reconcile.Result{Requeue, RequeueAfter}; delays in seconds.
Delays == {5, 30}

EmptyResult == [Requeue |-> FALSE, RequeueAfter |-> 0]

RequeueNow == [Requeue |-> TRUE, RequeueAfter |-> 0]

RequeueIn(d) == [Requeue |-> FALSE, RequeueAfter |-> d]

\* What one stage may report: no preference, immediately, or after D.
StageOutcomes == {EmptyResult, RequeueNow} \cup {RequeueIn(d) : d \in Delays}

Min(a, b) == IF a <= b THEN a ELSE b

\* updateReconcileResult: keep the strongest of two signals under
\* no preference < after D (smaller D stronger) < immediately.
updateReconcileResult(currResult, newResult) ==
    LET now(r) == r.Requeue /\ r.RequeueAfter = 0
    IN  IF now(currResult) \/ now(newResult) THEN RequeueNow
        ELSE IF currResult.RequeueAfter = 0 THEN newResult
        ELSE IF newResult.RequeueAfter = 0 THEN currResult
        ELSE RequeueIn(Min(currResult.RequeueAfter, newResult.RequeueAfter))

\* ----------------------------------------------------------------- errors

\* An error value names the call that produced it; NoErr is nil.
NoErr == <<"nil", 0>>

GetErr == <<"Client.Get", 0>>

\* The NotFound status error of r.Client.Get.
NotFoundErr == <<"NotFound", 0>>

KeepsNotFound(e) == e

\* client.IgnoreNotFound(err)
IgnoreNotFound(e) == IF e = NotFoundErr THEN NoErr ELSE e

DeleteErr == <<"handleDelete", 0>>

PatchErr == <<"Status.Patch", 0>>

updateResultOverwrites(result, next, err) ==
    IF err = NoErr THEN next ELSE result

\* The updateResult closure: merge a stage's outcome unless it failed.
updateResult(result, next, err) ==
    IF err = NoErr THEN updateReconcileResult(result, next) ELSE result

\* ------------------------------------------------------------ the pipeline

reconcilePatroniStatus == <<"reconcilePatroniStatus", 0>>

reconcilePGBackRest == <<"reconcilePGBackRest", 0>>

reconcilePGBouncer == <<"reconcilePGBouncer", 0>>

reconcileInstanceSet(i) == <<"reconcileInstanceSet", i>>

\* The ten stages called before the instance-set loop.
FixedStages ==
    << reconcilePatroniStatus,
       <<"reconcilePGUserSecret", 0>>,
       <<"reconcileClusterConfigMap", 0>>,
       <<"reconcileRootCertificate", 0>>,
       <<"reconcileClusterPodService", 0>>,
       <<"reconcilePatroniLeaderLease", 0>>,
       <<"reconcileClusterPrimaryService", 0>>,
       <<"reconcileClusterCertificate", 0>>,
       <<"reconcilePatroniDistributedConfiguration", 0>>,
       <<"reconcilePatroniDynamicConfiguration", 0>> >>

PoolerBeforeBackup(n) ==
    FixedStages \o [i \in 1..n |-> reconcileInstanceSet(i)]
                \o <<reconcilePGBouncer, reconcilePGBackRest>>

\* The stage calls of one attempt on a cluster declaring n instance sets,
\* in program order.
Pipeline(n) ==
    FixedStages \o [i \in 1..n |-> reconcileInstanceSet(i)]
                \o <<reconcilePGBackRest, reconcilePGBouncer>>

\* The earlier stages whose return value the call of s takes as an argument
\* (pgUser, rootCA, patroniLeaderService, primaryCertificate, instancesNames),
\* on a cluster declaring n instance sets.
Consumes(s, n) ==
    CASE s = <<"reconcileClusterConfigMap", 0>> ->
            {<<"reconcilePGUserSecret", 0>>}
      [] s = <<"reconcileClusterPrimaryService", 0>> ->
            {<<"reconcilePatroniLeaderLease", 0>>}
      [] s = <<"reconcileClusterCertificate", 0>> ->
            {<<"reconcileRootCertificate", 0>>}
      [] s[1] = "reconcileInstanceSet" ->
            {<<"reconcileClusterConfigMap", 0>>, <<"reconcileRootCertificate", 0>>,
             <<"reconcileClusterPodService", 0>>,
             <<"reconcilePatroniLeaderLease", 0>>,
             <<"reconcileClusterCertificate", 0>>}
      [] s = reconcilePGBackRest ->
            {reconcileInstanceSet(i) : i \in 1..n}
      [] s = reconcilePGBouncer ->
            {<<"reconcileClusterCertificate", 0>>, <<"reconcileRootCertificate", 0>>}
      [] OTHER -> {}

PoolerIgnoresErr(s, err) == err = NoErr \/ s = reconcilePGBouncer

\* The `if err == nil` in front of every stage call.
StageGuard(s, err) == err = NoErr

\* reconcilePatroniStatus only observes; every other stage applies a dependent.
Applies(s) == s # reconcilePatroniStatus

ApplyCall(s) == [verb |-> "patch", object |-> s, owner |-> Owner]

\* The Items (by name) of the StatefulSetList an instance-set stage returns:
\* its set's replica group on success; with an error, that group or nothing.
StageItems(s, ok, partial) ==
    IF s[1] # "reconcileInstanceSet" THEN <<>>
    ELSE IF ok \/ partial THEN <<s[2]>>
    ELSE <<>>

\* The locals of Reconcile when no stage has run yet; failed lists the stages
\* that returned an error, reported what the backup stage returned as result.
NoStages(wr) ==
    [err |-> NoErr, result |-> EmptyResult, instancesNames |-> <<>>,
     invoked |-> <<>>, failed |-> <<>>, reported |-> <<>>, writes |-> wr]

NoStageReports(s) == FALSE

\* The one stage call wrapped in updateResult.
Reports(s) == s = reconcilePGBackRest

\* One guarded stage call.  fails: the stages that fail when called; out: what
\* the backup stage reports; partial: whether a failing instance-set stage
\* still returns its items.
RunStage(st, s, fails, out, partial) ==
    IF ~StageGuard(s, st.err) THEN st
    ELSE LET ok == s \notin fails
             e == IF ok THEN NoErr ELSE s
         IN  [err |-> e,
              result |-> IF Reports(s)
                         THEN updateResult(st.result, out, e)
                         ELSE st.result,
              reported |-> IF s = reconcilePGBackRest
                           THEN Append(st.reported, out)
                           ELSE st.reported,
              instancesNames |-> st.instancesNames \o StageItems(s, ok, partial),
              invoked |-> Append(st.invoked, s),
              failed |-> IF ok THEN st.failed ELSE Append(st.failed, s),
              writes |-> IF ok /\ Applies(s)
                         THEN Append(st.writes, ApplyCall(s))
                         ELSE st.writes]

\* The stage calls from the k-th on, one after the other; each call's locals
\* are computed before the next call is made.
RECURSIVE RunStages(_, _, _, _, _, _)
RunStages(st, stages, k, fails, out, partial) ==
    IF k > Len(stages) THEN st
    ELSE CHOOSE r \in {RunStages(x, stages, k + 1, fails, out, partial) :
                         x \in {RunStage(st, stages[k], fails, out, partial)}} : TRUE

\* --------------------------------------------------------------- the state

NoStatus == [observedGeneration |-> 0]

\* A worker's `cluster` when it is not in an attempt.
NoCluster ==
    [name |-> "", instanceSets |-> 0, generation |-> 0,
     deleting |-> FALSE, status |-> NoStatus]

ClusterNames == {"demo", "postgres"}

VARIABLES
    stored,          \* the PostgresCluster held by the API server
    exists,          \* whether Get finds it
    pc,              \* per worker: "idle", "fetched", "statusPatch"
    cluster,         \* per worker: the fetched object, mutated in memory
    before,          \* per worker: cluster.DeepCopy()
    result,          \* per worker: the result local
    instancesNames,  \* per worker: names collected from the instance sets
    invoked,         \* per worker: stages called in the attempt
    failed,          \* per worker: stages that returned an error in the attempt
    reported,        \* per worker: the result the backup stage returned
    writes,          \* per worker: create/patch/delete calls of the attempt
    fresh,           \* per worker: nothing wrote the stored object since its Get
    raced,           \* per worker: a peer that read the same version has patched
    last,            \* the attempt that returned in the step just taken, if any
    aggInputs,       \* aggregation: the stage outcomes to merge
    aggDone,         \* aggregation: how many are merged
    aggResult,       \* aggregation: the result so far
    ownerReferences, \* ownership: metadata.ownerReferences of a dependent
    refCall,         \* ownership: the last set*Reference call and its return
    pgHBAs,          \* access rules: the postgres.HBAs being built
    hbaLine,         \* access rules: the next source line of the construction
    hbaHanded,       \* access rules: what the stages were given, if anything
    iniCluster,      \* pooler configuration: the fields of the Cluster it reads
    iniOrder,        \* pooler configuration: how the last call ranged its maps
    iniTexts,        \* pooler configuration: what each call of clusterINI returned
    password,        \* credential file: the password bytes
    authFile         \* credential file: what authFileContents returned, if called

vars ==
    << stored, exists, pc, cluster, before, result, instancesNames, invoked,
       failed, reported, writes, fresh, raced, last, aggInputs, aggDone, aggResult,
       ownerReferences, refCall, pgHBAs, hbaLine, hbaHanded,
       iniCluster, iniOrder, iniTexts, password, authFile >>

platform == <<stored, exists>>

locals ==
    << pc, cluster, before, result, instancesNames, invoked, failed, reported,
       writes >>

agg == <<aggInputs, aggDone, aggResult>>

ownership == <<ownerReferences, refCall>>

\* The variables of the functions checked apart from Reconcile.
hbas == <<pgHBAs, hbaLine, hbaHanded>>

inis == <<iniCluster, iniOrder, iniTexts>>

auth == <<password, authFile>>

aside == <<ownership, hbas, inis, auth>>

\* What handleDelete returns when it is not called.
NotHandled == [res |-> <<>>, err |-> NoErr]

\* No attempt returned in the last step.  Of an attempt that did: line, the
\* return statement taken; result, err, what it returned; before, the
\* snapshot it took; changed, whether its in-memory status differed from the
\* snapshot; patch, how its status patch went ("none" when not issued);
\* raced, whether a peer that read the same version had patched; handled,
\* what handleDelete returned to it; got, the error r.Client.Get returned.
NoLast ==
    [line |-> 0, result |-> EmptyResult, err |-> NoErr, got |-> NoErr,
     before |-> NoCluster,
     changed |-> FALSE, patch |-> "none", raced |-> FALSE,
     handled |-> NotHandled, instancesNames |-> <<>>, invoked |-> <<>>,
     failed |-> <<>>, reported |-> <<>>, writes |-> <<>>, events |-> <<>>]

InitWorkers ==
    /\ pc = [w \in Workers |-> "idle"]
    /\ cluster = [w \in Workers |-> NoCluster]
    /\ before = [w \in Workers |-> NoCluster]
    /\ result = [w \in Workers |-> EmptyResult]
    /\ instancesNames = [w \in Workers |-> <<>>]
    /\ invoked = [w \in Workers |-> <<>>]
    /\ failed = [w \in Workers |-> <<>>]
    /\ reported = [w \in Workers |-> <<>>]
    /\ writes = [w \in Workers |-> <<>>]
    /\ fresh = [w \in Workers |-> FALSE]
    /\ raced = [w \in Workers |-> FALSE]
    /\ last = NoLast

InitAgg ==
    /\ aggInputs = <<>>
    /\ aggDone = 0
    /\ aggResult = EmptyResult

\* No set*Reference call was made.
NoRefCall == [fn |-> "", owner |-> "", err |-> NoErr, before |-> <<>>,
              writes |-> <<>>]

InitOwnership ==
    /\ ownerReferences = <<>>
    /\ refCall = NoRefCall

\* pgHBAs := postgres.HBAs{}
NoHBAs == [Mandatory |-> <<>>, Default |-> <<>>]

InitHBAs ==
    /\ pgHBAs = NoHBAs
    /\ hbaLine = 162
    /\ hbaHanded = <<>>

\* The Cluster fields clusterINI reads, when it has not been called.
NoINICluster == [service |-> "", postgresPort |-> 0, pgBouncerPort |-> 0]

InitINI ==
    /\ iniCluster = NoINICluster
    /\ iniOrder = <<>>
    /\ iniTexts = <<>>

InitAuth ==
    /\ password = <<>>
    /\ authFile = <<>>

InitAside ==
    /\ InitOwnership
    /\ InitHBAs
    /\ InitINI
    /\ InitAuth
    /\ InitAuth

Init ==
    /\ \E nm \in ClusterNames, n \in 0..MaxSets :
          stored = [name |-> nm, instanceSets |-> n, generation |-> 1,
                    deleting |-> FALSE, status |-> NoStatus]
    /\ exists = TRUE
    /\ InitWorkers
    /\ InitAgg
    /\ InitAside

\* --------------------------------------------------------------- returning

\* Reconcile returns: the locals go out of scope; what the attempt called and
\* returned is kept in last for the step.
Return(w, r) ==
    /\ pc' = [pc EXCEPT ![w] = "idle"]
    /\ cluster' = [cluster EXCEPT ![w] = NoCluster]
    /\ before' = [before EXCEPT ![w] = NoCluster]
    /\ result' = [result EXCEPT ![w] = EmptyResult]
    /\ instancesNames' = [instancesNames EXCEPT ![w] = <<>>]
    /\ invoked' = [invoked EXCEPT ![w] = <<>>]
    /\ failed' = [failed EXCEPT ![w] = <<>>]
    /\ reported' = [reported EXCEPT ![w] = <<>>]
    /\ writes' = [writes EXCEPT ![w] = <<>>]
    /\ last' = [r EXCEPT !.before = before[w], !.raced = raced[w]]

\* A worker that returned no longer races anybody.
Settle(f, w) == [f EXCEPT ![w] = f[w] /\ pc'[w] # "idle"]

\* ------------------------------------------------------------------- fetch

\* r.Client.Get, cluster.Default(), before := cluster.DeepCopy()
Get(w) ==
    /\ pc[w] = "idle"
    /\ \/ /\ \E e \in (IF exists THEN {} ELSE {NotFoundErr}) \cup {GetErr} :
                Return(w, [NoLast EXCEPT !.line = 104, !.result = result[w],
                                         !.got = e, !.err = IgnoreNotFound(e)])
          /\ fresh' = [fresh EXCEPT ![w] = FALSE]
       \/ /\ exists
          /\ pc' = [pc EXCEPT ![w] = "fetched"]
          /\ cluster' = [cluster EXCEPT ![w] = stored]
          /\ before' = [before EXCEPT ![w] = stored]
          /\ fresh' = [fresh EXCEPT ![w] = TRUE]
          /\ last' = NoLast
          /\ UNCHANGED <<result, instancesNames, invoked, failed, reported, writes>>
    /\ raced' = [raced EXCEPT ![w] = FALSE]
    /\ UNCHANGED <<platform, agg, aside>>

\* ---------------------------------------------------------------- deletion

\* What handleDelete can return for c: a *reconcile.Result (<<>> is nil) and
\* an error, which may come with a result.  A cluster that is not being
\* deleted yields (nil, nil).
handleDelete(c) ==
    IF c.deleting
    THEN {[res |-> <<o>>, err |-> NoErr] : o \in StageOutcomes}
            \cup {[res |-> <<>>, err |-> DeleteErr]}
            \cup {[res |-> <<RequeueIn(d)>>, err |-> DeleteErr] : d \in Delays}
    ELSE {NotHandled}

DeleteErrorKeepsResult(h) == Head(h.res \o <<EmptyResult>>)

\* `return reconcile.Result{}, err` when handleDelete failed.
DeleteErrorResult(h) == EmptyResult

ReturnsOnErrorOnly(h) == h.err # NoErr

\* `if result, err := r.handleDelete(...); err != nil {...} else if result != nil`
ReturnsEarly(h) == h.err # NoErr \/ h.res # <<>>

\* The V(1) branch sets Requeue on the handler's result before it is returned.
LogDeleting(r, verbose) ==
    IF verbose /\ r.RequeueAfter > 0 THEN [r EXCEPT !.Requeue = TRUE] ELSE r

AnyNameAllowed(c) == TRUE

\* cluster.Name == "postgres" is refused.
NameAllowed(c) == c.name # "postgres"

DeleteCall == [verb |-> "delete", object |-> <<"dependents", 0>>, owner |-> Owner]

\* ------------------------------------------------------------ status patch

KeepsObserved(c) == c

\* cluster.Status.ObservedGeneration = cluster.GetGeneration()
AdvanceObserved(c) ==
    [c EXCEPT !.status.observedGeneration = c.generation]

PatchOnAnyChange(e, old, new) == old # new

PatchAlways(e, old, new) == e = NoErr

\* err == nil && !equality.Semantic.DeepEqual(before.Status, cluster.Status)
PatchGuard(e, old, new) == e = NoErr /\ old # new

\* client.MergeFrom(before): the fields of the status that differ from the
\* snapshot are sent, and replace what is stored; no version is sent.
MergePatch(cur, old, new) ==
    [f \in DOMAIN cur |-> IF new[f] # old[f] THEN new[f] ELSE cur[f]]

StatusCall == [verb |-> "patch", object |-> <<"status", 0>>, owner |-> Owner]

\* errors.WithStack(err) keeps nil nil and an error that error.
WithStack(e) == e

\* --------------------------------------------------------------- Reconcile

\* The stages that can be made to fail in one attempt: none, or any one.
Failures(stages) ==
    {{}} \cup {{stages[k]} : k \in 1..Len(stages)}

\* The backup stage's outcome is drawn only where that stage returns one.
BackupOutcomes(fails) ==
    IF fails \subseteq {reconcilePGBouncer} THEN StageOutcomes ELSE {EmptyResult}

\* Whether a failing instance-set stage still returns items.
PartialItems(fails) ==
    IF \E s \in fails : s[1] = "reconcileInstanceSet" THEN BOOLEAN ELSE {FALSE}

\* The ordered stages, the advance of the observed generation and the decision
\* to patch the status.  mayFail: whether a stage may fail in this attempt.
RunPipeline(w, wr, h, mayFail) ==
    \E stages \in {Pipeline(cluster[w].instanceSets)} :
      \E fails \in (IF mayFail THEN Failures(stages) ELSE {{}}) :
        \E out \in BackupOutcomes(fails), partial \in PartialItems(fails) :
          \E st \in {RunStages(NoStages(wr), stages, 1, fails, out, partial)},
             c2 \in {AdvanceObserved(cluster[w])} :
            IF PatchGuard(st.err, before[w].status, c2.status)
            THEN /\ pc' = [pc EXCEPT ![w] = "statusPatch"]
                 /\ cluster' = [cluster EXCEPT ![w] = c2]
                 /\ result' = [result EXCEPT ![w] = st.result]
                 /\ instancesNames' =
                      [instancesNames EXCEPT ![w] = st.instancesNames]
                 /\ invoked' = [invoked EXCEPT ![w] = st.invoked]
                 /\ failed' = [failed EXCEPT ![w] = st.failed]
                 /\ reported' = [reported EXCEPT ![w] = st.reported]
                 /\ writes' = [writes EXCEPT ![w] = st.writes]
                 /\ last' = NoLast
                 /\ UNCHANGED before
            ELSE Return(w, [NoLast EXCEPT
                              !.line = 252, !.result = st.result, !.err = st.err,
                              !.changed = before[w].status # c2.status,
                              !.handled = h,
                              !.instancesNames = st.instancesNames,
                              !.invoked = st.invoked, !.failed = st.failed,
                              !.reported = st.reported,
                              !.writes = st.writes])

\* From handleDelete to the return, or to the call of Status().Patch: the
\* deletion check, the reserved name, then the pipeline.
AttemptWith(w, mayFail) ==
    /\ pc[w] = "fetched"
    /\ \E h \in handleDelete(cluster[w]) :
          \E cleaned \in {cluster[w].deleting /\ h.err = NoErr} :
          \E wr \in {IF cleaned THEN <<DeleteCall>> ELSE <<>>} :
              /\ exists' = IF cleaned /\ h.res = <<EmptyResult>> THEN FALSE ELSE exists
              /\ IF ReturnsEarly(h)
                 THEN IF h.err # NoErr
                      THEN Return(w, [NoLast EXCEPT
                                        !.line = 126, !.err = h.err,
                                        !.result = DeleteErrorResult(h),
                                        !.handled = h, !.writes = wr])
                      ELSE \E verbose \in BOOLEAN :
                             Return(w, [NoLast EXCEPT
                                          !.line = 137,
                                          !.result = LogDeleting(
                                             Head(h.res \o <<EmptyResult>>), verbose),
                                          !.handled = h, !.writes = wr])
                 ELSE IF ~NameAllowed(cluster[w])
                      THEN Return(w, [NoLast EXCEPT
                                        !.line = 146, !.result = result[w],
                                        !.handled = h, !.writes = wr,
                                        !.events = <<"InvalidName">>])
                      ELSE RunPipeline(w, wr, h, mayFail)
              /\ fresh' = [x \in Workers |->
                             IF exists' # exists THEN FALSE ELSE Settle(fresh, w)[x]]
    /\ raced' = Settle(raced, w)
    /\ UNCHANGED <<stored, agg, aside>>

Attempt(w) == AttemptWith(w, TRUE)

\* r.Client.Status().Patch(ctx, cluster, client.MergeFrom(before), r.Owner)
StatusPatch(w) ==
    /\ pc[w] = "statusPatch"
    /\ \E ok \in (IF exists THEN {TRUE} ELSE {}) \cup {FALSE} :
          /\ stored' = IF ok
                       THEN [stored EXCEPT !.status =
                               MergePatch(stored.status, before[w].status,
                                          cluster[w].status)]
                       ELSE stored
          /\ Return(w, [NoLast EXCEPT
                          !.line = 252, !.result = result[w],
                          !.err = WithStack(IF ok THEN NoErr ELSE PatchErr),
                          !.changed = before[w].status # cluster[w].status,
                          !.patch = IF ok THEN "ok" ELSE "error",
                          !.instancesNames = instancesNames[w],
                          !.invoked = invoked[w], !.failed = failed[w],
                          !.reported = reported[w],
                          !.writes = Append(writes[w], StatusCall)])
          /\ fresh' = [x \in Workers |-> IF ok THEN FALSE ELSE Settle(fresh, w)[x]]
          /\ raced' = [x \in Workers |->
                         IF x = w THEN FALSE
                         ELSE raced[x] \/ (ok /\ fresh[w] /\ fresh[x] /\ pc[x] # "idle")]
    /\ UNCHANGED <<exists, agg, aside>>

\* -------------------------------------------------------- the environment

\* A user changes the spec: the API server bumps metadata.generation.
UpdateSpec ==
    /\ exists /\ ~stored.deleting
    /\ stored.generation < MaxGeneration
    /\ stored' = [stored EXCEPT !.generation = @ + 1]
    /\ fresh' = [x \in Workers |-> FALSE]
    /\ last' = NoLast
    /\ UNCHANGED <<exists, locals, raced, agg, aside>>

\* A user deletes the cluster: it gets a deletion timestamp.
MarkDeleted ==
    /\ exists /\ ~stored.deleting
    /\ stored' = [stored EXCEPT !.deleting = TRUE]
    /\ fresh' = [x \in Workers |-> FALSE]
    /\ last' = NoLast
    /\ UNCHANGED <<exists, locals, raced, agg, aside>>

Next ==
    \/ \E w \in Workers : Get(w)
    \/ \E w \in Workers : Attempt(w)
    \/ \E w \in Workers : StatusPatch(w)
    \/ UpdateSpec
    \/ MarkDeleted

Spec == Init /\ [][Next]_vars

\* Fair redelivery and transient failures: a worker keeps fetching, and a call
\* that is retried again and again eventually succeeds.  AttemptOK is the
\* attempt in which no stage fails.
GetOK(w) == Get(w) /\ pc'[w] = "fetched"

AttemptOK(w) ==
    AttemptWith(w, FALSE) /\ (pc'[w] = "statusPatch" \/ last'.err = NoErr)

StatusPatchOK(w) == StatusPatch(w) /\ last'.err = NoErr

\* A cluster that is not named "postgres" and is never marked for deletion,
\* whose spec changes a bounded number of times.
LiveInit ==
    /\ \E n \in 1..LiveSets :
          stored = [name |-> "demo", instanceSets |-> n, generation |-> 1,
                    deleting |-> FALSE, status |-> NoStatus]
    /\ exists = TRUE
    /\ InitWorkers
    /\ InitAgg
    /\ InitAside

LiveNext ==
    \/ \E w \in Workers : Get(w)
    \/ \E w \in Workers : Attempt(w)
    \/ \E w \in Workers : StatusPatch(w)
    \/ UpdateSpec

LiveSpec ==
    /\ LiveInit
    /\ [][LiveNext]_vars
    /\ \A w \in Workers :
          /\ WF_vars(GetOK(w))
          /\ SF_vars(AttemptOK(w))
          /\ SF_vars(StatusPatchOK(w))

\* ------------------------------------------------------------- aggregation

\* The sequences of stage outcomes handed to updateResult.
OutcomeSeqs == UNION {[1..n -> StageOutcomes] : n \in 0..MaxOutcomes}

InitAggregation ==
    /\ stored = [name |-> "demo", instanceSets |-> 0, generation |-> 1,
                 deleting |-> FALSE, status |-> NoStatus]
    /\ exists = TRUE
    /\ InitWorkers
    /\ aggInputs \in OutcomeSeqs
    /\ aggDone = 0
    /\ aggResult = EmptyResult
    /\ InitAside

\* updateResult(stage()) for the next stage that returned no error.
Merge ==
    /\ aggDone < Len(aggInputs)
    /\ aggResult' = updateResult(aggResult, aggInputs[aggDone + 1], NoErr)
    /\ aggDone' = aggDone + 1
    /\ UNCHANGED <<platform, locals, fresh, raced, last, aggInputs, aside>>

SpecAgg == InitAggregation /\ [][Merge]_vars

\* --------------------------------------------------------------- ownership

\* Reconcile at rest: no request is being served.
AtRest ==
    /\ stored = [name |-> "demo", instanceSets |-> 0, generation |-> 1,
                 deleting |-> FALSE, status |-> NoStatus]
    /\ exists = TRUE
    /\ InitWorkers
    /\ InitAgg

reconciling == <<platform, locals, fresh, raced, last, agg>>

\* The PostgresClusters that are passed as owner, and a controller that is
\* not a PostgresCluster.
ClusterOwners == {"demo", "other"}

ForeignOwner == "StatefulSet"

AlreadyOwnedErr == <<"AlreadyOwnedError", 0>>

\* metav1.GetControllerOf: the references marked controller.
ControllersOf(refs) == {i \in 1..Len(refs) : refs[i].controller}

\* upsertOwnerRef: replace the reference to the same owner, or append.
UpsertOwnerRef(refs, ref) ==
    IF \E i \in 1..Len(refs) : refs[i].owner = ref.owner
    THEN [i \in 1..Len(refs) |->
            IF refs[i].owner = ref.owner THEN ref ELSE refs[i]]
    ELSE Append(refs, ref)

\* controllerutil.SetControllerReference
SetControllerReference(refs, o) ==
    IF \E i \in ControllersOf(refs) : refs[i].owner # o
    THEN [refs |-> refs, err |-> AlreadyOwnedErr]
    ELSE [refs |-> UpsertOwnerRef(refs, [owner |-> o, controller |-> TRUE]),
          err |-> NoErr]

\* controllerutil.SetOwnerReference
SetOwnerReference(refs, o) ==
    [refs |-> UpsertOwnerRef(refs, [owner |-> o, controller |-> FALSE]),
     err |-> NoErr]

\* Reconciler.setOwnerReference
setOwnerReference(refs, o) == SetOwnerReference(refs, o)

setsOwnerOnly(refs, o) == SetOwnerReference(refs, o)

\* Reconciler.setControllerReference
setControllerReference(refs, o) == SetControllerReference(refs, o)

\* A dependent as it is found: without owner, or owned by a foreign object.
InitOwnerReferences ==
    /\ AtRest
    /\ InitHBAs
    /\ InitINI
    /\ InitAuth
    /\ refCall = NoRefCall
    /\ ownerReferences \in
          {<<>>} \cup {<<[owner |-> ForeignOwner, controller |-> c]>> : c \in BOOLEAN}

CallSetControllerReference ==
    /\ \E o \in ClusterOwners :
          \E r \in {setControllerReference(ownerReferences, o)} :
            /\ ownerReferences' = r.refs
            /\ refCall' = [fn |-> "setControllerReference", owner |-> o,
                           err |-> r.err, before |-> ownerReferences,
                           writes |-> <<>>]
    /\ UNCHANGED <<reconciling, hbas, inis, auth>>

CallSetOwnerReference ==
    /\ \E o \in ClusterOwners :
          \E r \in {setOwnerReference(ownerReferences, o)} :
            /\ ownerReferences' = r.refs
            /\ refCall' = [fn |-> "setOwnerReference", owner |-> o,
                           err |-> r.err, before |-> ownerReferences,
                           writes |-> <<>>]
    /\ UNCHANGED <<reconciling, hbas, inis, auth>>

NextOwnerReferences ==
    \/ CallSetControllerReference
    \/ CallSetOwnerReference

SpecOwnerReferences == InitOwnerReferences /\ [][NextOwnerReferences]_vars

\* ------------------------------------------------------------ access rules

MaxPoolerRules == 2

PGReplicationUsername == "naming.PGReplicationUsername"

\* postgres.NewHBA() and its builder calls; "" is a field left unset.
NewHBA(origin, user, database, method) ==
    [origin |-> origin, user |-> user, database |-> database, method |-> method]

\* The rules of lines 162 to 165, by line.
MandatoryRule(line) ==
    CASE line = 162 -> NewHBA("local", "postgres", "", "peer")
      [] line = 163 -> NewHBA("host", PGReplicationUsername, "replication", "md5")
      [] line = 164 -> NewHBA("host", PGReplicationUsername, "postgres", "md5")
      [] line = 165 -> NewHBA("host", PGReplicationUsername, "", "reject")

\* postgres.NewHBA().TLS().Method("md5")
DefaultRule == NewHBA("hostssl", "", "", "md5")

\* The rules pgbouncer.PostgreSQL may contribute.
PoolerRules ==
    { NewHBA("hostssl", "pgbouncer.postgresqlUser", "", "scram-sha-256"),
      NewHBA("host", "pgbouncer.postgresqlUser", "", "reject") }

PoolerRuleSeqs == UNION {[1..n -> PoolerRules] : n \in 0..MaxPoolerRules}

prepend(rules, rule) == <<rule>> \o rules

\* The builtin append(rules, rule).
append(rules, rule) == Append(rules, rule)

\* The order in which postgres.HBAs is rendered.
Rendered(h) == h.Mandatory \o h.Default

\* pgHBAs.Mandatory = append(pgHBAs.Mandatory, ...), four times.
AppendMandatory ==
    /\ hbaLine \in 162..165
    /\ pgHBAs' = [pgHBAs EXCEPT
                    !.Mandatory = append(@, MandatoryRule(hbaLine))]
    /\ hbaLine' = IF hbaLine = 165 THEN 167 ELSE hbaLine + 1
    /\ UNCHANGED <<reconciling, ownership, hbaHanded, inis, auth>>

\* pgbouncer.PostgreSQL(cluster, &pgHBAs) adds its rules behind those present.
PoolerPostgreSQL ==
    /\ hbaLine = 167
    /\ \E m \in PoolerRuleSeqs, d \in PoolerRuleSeqs :
          pgHBAs' = [Mandatory |-> pgHBAs.Mandatory \o m,
                     Default |-> pgHBAs.Default \o d]
    /\ hbaLine' = 172
    /\ UNCHANGED <<reconciling, ownership, hbaHanded, inis, auth>>

\* pgHBAs.Default = append(pgHBAs.Default, ...)
AppendDefault ==
    /\ hbaLine = 172
    /\ pgHBAs' = [pgHBAs EXCEPT !.Default = append(@, DefaultRule)]
    /\ hbaLine' = 192
    /\ UNCHANGED <<reconciling, ownership, hbaHanded, inis, auth>>

\* reconcileClusterConfigMap and reconcilePatroniDynamicConfiguration get
\* pgHBAs by value.
HandToStages ==
    /\ hbaLine \in {192, 213}
    /\ hbaHanded' = Append(hbaHanded, pgHBAs)
    /\ hbaLine' = IF hbaLine = 192 THEN 213 ELSE 252
    /\ UNCHANGED <<reconciling, ownership, pgHBAs, inis, auth>>

InitAccessRules ==
    /\ AtRest
    /\ InitOwnership
    /\ InitHBAs
    /\ InitINI
    /\ InitAuth

NextAccessRules ==
    \/ AppendMandatory
    \/ PoolerPostgreSQL
    \/ AppendDefault
    \/ HandToStages

SpecAccessRules == InitAccessRules /\ [][NextAccessRules]_vars

\* ----------------------------------------------------- pooler configuration

MaxCalls == 2

\* The bytes that occur in keys, in ascending byte order.
Alphabet ==
    << "_", "a", "b", "c", "d", "e", "f", "g", "h", "i", "j", "k", "l", "m",
       "n", "o", "p", "q", "r", "s", "t", "u", "v", "w", "x", "y", "z" >>

Byte(c) == CHOOSE i \in 1..Len(Alphabet) : Alphabet[i] = c

\* a < b for strings given by their bytes, as sort.Strings compares them.
StringLess(a, b) ==
    \/ /\ Len(a) < Len(b)
       /\ \A i \in 1..Len(a) : a[i] = b[i]
    \/ \E i \in 1..Min(Len(a), Len(b)) :
          /\ Byte(a[i]) < Byte(b[i])
          /\ \A j \in 1..(i - 1) : a[j] = b[j]

\* keys with k put in front of the first key that is not less than it.
RECURSIVE Insert(_, _)
Insert(keys, k) ==
    IF keys = <<>> THEN <<k>>
    ELSE IF StringLess(Head(keys), k) THEN <<Head(keys)>> \o Insert(Tail(keys), k)
    ELSE <<k>> \o keys

\* keys in ascending order.
RECURSIVE Sorted(_)
Sorted(keys) ==
    IF keys = <<>> THEN <<>>
    ELSE Insert(Sorted(Tail(keys)), Head(keys))

Unsorted(keys) == keys

\* sort.Strings(keys)
SortStrings(keys) == Sorted(keys)

\* fmt.Fprintf(&b, "%s = %s\n", k, vs[k])
Line(k, v) == <<k, " = ", v, "\n">>

\* A map literal: its entries as written, and the map they make.
KeysOf(entries) == [i \in 1..Len(entries) |-> entries[i][1]]

MapOf(entries) ==
    [k \in {entries[i][1] : i \in 1..Len(entries)} |->
        (CHOOSE e \in {entries[i] : i \in 1..Len(entries)} : e[1] = k)[2]]

\* iniValueSet.String, the range loop yielding the keys in the order ranged.
String(vs, ranged) ==
    LET keys == SortStrings(ranged)
    IN  [i \in 1..Len(keys) |-> Line(keys[i], vs[keys[i]])]

Reverse(q) == [i \in 1..Len(q) |-> q[Len(q) + 1 - i]]

Rotate(q, k) == [i \in 1..Len(q) |-> q[((i + k - 1) % Len(q)) + 1]]

\* The orders in which a range loop may yield the keys of a map: those
\* considered are the rotations of the keys as written and of their reverse.
IterationOrders(entries) ==
    {Rotate(q, k) : q \in {KeysOf(entries), Reverse(KeysOf(entries))},
                    k \in 0..(Len(entries) - 1)}

Digit(d) == <<"0", "1", "2", "3", "4", "5", "6", "7", "8", "9">>[d + 1]

\* fmt.Sprint of a port, and %d: its decimal digits.
RECURSIVE Sprint(_)
Sprint(n) ==
    IF n < 10 THEN <<Digit(n)>> ELSE Append(Sprint(n \div 10), Digit(n % 10))

iniGeneratedWarning ==
    <<"# Generated by postgres-operator. DO NOT EDIT.\n",
      "# Your changes will not be saved.\n">>

configDirectory == "/etc/pgbouncer"

authFileAbsolutePath == <<configDirectory, "/", "~postgres-operator/users.txt">>

iniFileAbsolutePath == <<configDirectory, "/", "~postgres-operator.ini">>

postgresqlUser == "postgresqlUser"

SectionHeader == <<"\n[pgbouncer]\n">>

early(c) == << <<<<"a", "u", "t", "h", "_", "u", "s", "e", "r">>, postgresqlUser>> >>

\* fmt.Sprintf("[databases]\n* = host=%s port=%d\n", ...)
databases(c) ==
    <<"[databases]\n* = host=", c.service, " port=", Sprint(c.postgresPort), "\n">>

defaults(c) ==
    << <<<<"i", "g", "n", "o", "r", "e", "_", "s", "t", "a", "r", "t", "u", "p", "_", "p", "a", "r", "a", "m", "e", "t", "e", "r", "s">>,
         "extra_float_digits">> >>

mandatory(c) ==
    << <<<<"a", "u", "t", "h", "_", "f", "i", "l", "e">>,
          authFileAbsolutePath>>,
       <<<<"a", "u", "t", "h", "_", "q", "u", "e", "r", "y">>,
          "SELECT username, password from pgbouncer.get_auth($1)">>,
       <<<<"a", "u", "t", "h", "_", "u", "s", "e", "r">>,
          postgresqlUser>>,
       <<<<"c", "l", "i", "e", "n", "t", "_", "t", "l", "s", "_", "s", "s", "l", "m", "o", "d", "e">>,
          "require">>,
       <<<<"c", "l", "i", "e", "n", "t", "_", "t", "l", "s", "_", "c", "e", "r", "t", "_", "f", "i", "l", "e">>,
          "certFrontendAbsolutePath">>,
       <<<<"c", "l", "i", "e", "n", "t", "_", "t", "l", "s", "_", "k", "e", "y", "_", "f", "i", "l", "e">>,
          "certFrontendPrivateKeyAbsolutePath">>,
       <<<<"c", "l", "i", "e", "n", "t", "_", "t", "l", "s", "_", "c", "a", "_", "f", "i", "l", "e">>,
          "certFrontendAuthorityAbsolutePath">>,
       <<<<"c", "o", "n", "f", "f", "i", "l", "e">>,
          iniFileAbsolutePath>>,
       <<<<"l", "i", "s", "t", "e", "n", "_", "a", "d", "d", "r">>,
          "*">>,
       <<<<"l", "i", "s", "t", "e", "n", "_", "p", "o", "r", "t">>,
          Sprint(c.pgBouncerPort)>>,
       <<<<"s", "e", "r", "v", "e", "r", "_", "t", "l", "s", "_", "s", "s", "l", "m", "o", "d", "e">>,
          "verify-full">>,
       <<<<"s", "e", "r", "v", "e", "r", "_", "t", "l", "s", "_", "c", "a", "_", "f", "i", "l", "e">>,
          "certBackendAuthorityAbsolutePath">>,
       <<<<"u", "n", "i", "x", "_", "s", "o", "c", "k", "e", "t", "_", "d", "i", "r">>,
          "">> >>

\* clusterINI(cluster), its three maps ranged in the orders of ranged.
clusterINI(c, ranged) ==
    <<iniGeneratedWarning>>
        \o <<SectionHeader>> \o String(MapOf(early(c)), ranged[1])
        \o <<databases(c)>>
        \o <<SectionHeader>> \o String(MapOf(defaults(c)), ranged[2])
        \o <<SectionHeader>> \o String(MapOf(mandatory(c)), ranged[3])

\* The Clusters clusterINI is called on: the name of the primary Service,
\* cluster.Spec.Port and cluster.Spec.Proxy.PGBouncer.Port.
INIClusters ==
    [service : {"demo-primary", "hippo-primary"},
     postgresPort : {5432, 15432},
     pgBouncerPort : {5432, 6432}]

InitClusterINI ==
    /\ AtRest
    /\ InitOwnership
    /\ InitHBAs
    /\ InitAuth
    /\ iniCluster \in INIClusters
    /\ iniOrder = <<>>
    /\ iniTexts = <<>>

CallClusterINI ==
    /\ Len(iniTexts) < MaxCalls
    /\ \E e \in IterationOrders(early(iniCluster)),
          d \in IterationOrders(defaults(iniCluster)),
          m \in IterationOrders(mandatory(iniCluster)) :
          /\ iniOrder' = <<e, d, m>>
          /\ iniTexts' = Append(iniTexts, clusterINI(iniCluster, <<e, d, m>>))
    /\ UNCHANGED <<reconciling, ownership, hbas, iniCluster, auth>>

SpecClusterINI == InitClusterINI /\ [][CallClusterINI]_vars

\* --------------------------------------------------------- credential file

MaxPassword == 3

\* Bytes a password is made of: a letter, the double quote, a space and a
\* line feed.
PasswordBytes == {"a", "\"", " ", "\n"}

Passwords == UNION {[1..n -> PasswordBytes] : n \in 0..MaxPassword}

\* strings.ReplaceAll(s, old, new) for a one-byte old.
RECURSIVE ReplaceAll(_, _, _)
ReplaceAll(s, old, new) ==
    IF s = <<>> THEN <<>>
    ELSE (IF Head(s) = old THEN new ELSE <<Head(s)>>)
            \o ReplaceAll(Tail(s), old, new)

quoteRaw(s) == <<"\"">> \o s \o <<"\"">>

\* quote := func(s string) string
quote(s) == <<"\"">> \o ReplaceAll(s, "\"", <<"\"", "\"">>) \o <<"\"">>

\* authFileContents(password); postgresqlUser is taken as one byte that is
\* not a double quote.
authFileContents(pw) ==
    quote(<<postgresqlUser>>) \o <<" ">> \o quote(pw) \o <<"\n">>

\* Reading a field of the authentication file: from an opening double quote
\* to the first double quote that is not doubled, two double quotes standing
\* for one.  next is the position behind the field, 0 when there is no field.
RECURSIVE ScanField(_, _, _)
ScanField(text, p, acc) ==
    IF p > Len(text) THEN [value |-> acc, next |-> 0]
    ELSE IF text[p] # "\"" THEN ScanField(text, p + 1, Append(acc, text[p]))
    ELSE IF p < Len(text) /\ text[p + 1] = "\""
         THEN ScanField(text, p + 2, Append(acc, "\""))
    ELSE [value |-> acc, next |-> p + 1]

ReadField(text, p) ==
    IF p >= 1 /\ p <= Len(text) /\ text[p] = "\""
    THEN ScanField(text, p + 1, <<>>)
    ELSE [value |-> <<>>, next |-> 0]

InitAuthFile ==
    /\ AtRest
    /\ InitOwnership
    /\ InitHBAs
    /\ InitINI
    /\ password \in Passwords
    /\ authFile = <<>>

CallAuthFileContents ==
    /\ authFile = <<>>
    /\ authFile' = authFileContents(password)
    /\ UNCHANGED <<reconciling, ownership, hbas, inis, password>>

SpecAuthFile == InitAuthFile /\ [][CallAuthFileContents]_vars

\* ------------------------------------------------------------------ claims

Returned == last.line # 0

Fetched == last.line \notin {0, 104}

\* The status patches among the calls of the attempt that just returned.
StatusPatches == {i \in DOMAIN last.writes : last.writes[i] = StatusCall}

Deletes == {i \in DOMAIN last.writes : last.writes[i].verb = "delete"}

NothingDone ==
    /\ last.invoked = <<>>
    /\ last.writes = <<>>
    /\ last.err = NoErr
    /\ last.result = EmptyResult

\* C1 as stated: an attempt on a fetched Cluster named "postgres" calls no
\* stage, makes no create, patch or delete call, and returns (Result{}, nil).
ReservedNameNeverActs ==
    (Fetched /\ last.before.name = "postgres") => NothingDone

\* C1 amended: an attempt on a Cluster named "postgres" that is not marked for
\* deletion calls no stage, makes no create, patch or delete call, leaves at
\* the reserved-name return and returns (Result{}, nil); deletion handling,
\* which comes first, still runs for a "postgres" that is being deleted.
ReservedNameLiveNeverActs ==
    (Fetched /\ last.before.name = "postgres" /\ ~last.before.deleting)
        => (NothingDone /\ last.line = 146 /\ last.events = <<"InvalidName">>)

ReservedNameRejected ==
    /\ last.line = 146
    /\ last.before.name = "postgres"
    /\ ~last.before.deleting

\* C2: an attempt on a Cluster fetched marked for deletion calls no stage and
\* issues no status patch; it ends in deletion handling, returning the
\* handler's error with an empty result or the handler's outcome with nil.
DeletionBypassesPipeline ==
    /\ \A w \in Workers : cluster[w].deleting => pc[w] = "fetched"
    /\ (Returned /\ last.before.deleting) =>
          /\ last.invoked = <<>>
          /\ StatusPatches = {}
          /\ last.patch = "none"
          /\ \/ /\ last.line = 126
                /\ last.handled.err # NoErr
                /\ last.err = last.handled.err
             \/ /\ last.line = 137
                /\ last.err = NoErr
                /\ last.handled.err = NoErr
                /\ last.handled.res # <<>>
                /\ last.result.RequeueAfter = last.handled.res[1].RequeueAfter
                /\ last.handled.res[1].Requeue => last.result.Requeue

DeletionHandled ==
    /\ last.line = 137
    /\ last.before.deleting
    /\ last.result = RequeueIn(5)

\* C3: once a stage has returned an error no later stage is called, the calls
\* made are the applies of the stages before it (no delete, nothing undone,
\* no status patch), and Reconcile returns that stage's error.
FailFast ==
    (Returned /\ last.failed # <<>>) =>
        \E k \in 1..Len(Pipeline(last.before.instanceSets)) :
            LET stages == Pipeline(last.before.instanceSets)
            IN  /\ last.failed = <<stages[k]>>
                /\ last.invoked = SubSeq(stages, 1, k)
                /\ last.err = stages[k]
                /\ last.line = 252
                /\ Deletes = {}
                /\ StatusPatches = {}
                /\ \A i \in DOMAIN last.writes :
                      \E j \in 1..(k - 1) : last.writes[i] = ApplyCall(stages[j])
                /\ \A j \in 1..(k - 1) :
                      Applies(stages[j]) =>
                         \E i \in DOMAIN last.writes : last.writes[i] = ApplyCall(stages[j])

InstanceSetFailed ==
    /\ last.failed = <<reconcileInstanceSet(1)>>
    /\ last.err = reconcileInstanceSet(1)
    /\ Len(last.writes) > 0

\* C4: the stored status.observedGeneration changes only in the step in which
\* an attempt whose every stage succeeded patches the status, and it becomes
\* the generation that attempt fetched.
ObservedGenerationOnlyOnSuccess ==
    [][stored'.status.observedGeneration # stored.status.observedGeneration =>
          /\ last'.line = 252
          /\ last'.patch = "ok"
          /\ last'.failed = <<>>
          /\ last'.invoked = Pipeline(last'.before.instanceSets)
          /\ last'.err = NoErr
          /\ stored'.status.observedGeneration = last'.before.generation]_vars

ObservedGenerationAdvanced ==
    /\ last.patch = "ok"
    /\ last.failed = <<>>
    /\ last.before.status.observedGeneration # last.before.generation
    /\ stored.status.observedGeneration = last.before.generation

\* C5 as stated: of two attempts that fetched the same version of the Cluster
\* and both patch the status, the second patch fails with a conflict.
ConflictingPatchFails ==
    (Returned /\ last.raced /\ last.patch # "none") =>
        (last.patch = "error" /\ last.err = PatchErr)

\* C6: under fair redelivery with transient failures, for a Cluster that is
\* neither marked for deletion nor named "postgres", some attempt calls every
\* stage with none failing and patches the status, and from some point on the
\* stored observedGeneration equals the generation, whatever attempts failed
\* before.
Converges ==
    /\ <>(/\ last.patch = "ok"
           /\ last.failed = <<>>
           /\ last.invoked = Pipeline(last.before.instanceSets))
    /\ <>[](stored.status.observedGeneration = stored.generation)

ConvergedAfterUpdate ==
    /\ last.patch = "ok"
    /\ last.before.generation > 1
    /\ last.before.status.observedGeneration > 0
    /\ stored.status.observedGeneration = stored.generation
    /\ last.invoked = Pipeline(last.before.instanceSets)

\* C7: a status patch is issued only when the in-memory status differs from
\* the snapshot, and an attempt on a Cluster fetched with its generation
\* already observed leaves the status as in the snapshot and issues no patch.
NoPatchWhenUnchanged ==
    /\ \A w \in Workers :
          pc[w] = "statusPatch" => cluster[w].status # before[w].status
    /\ (Returned /\ last.patch # "none") => last.changed
    /\ (/\ last.line = 252
        /\ last.before.status.observedGeneration = last.before.generation)
          => (~last.changed /\ last.patch = "none" /\ StatusPatches = {})

SecondRunIsQuiet ==
    /\ last.line = 252
    /\ last.err = NoErr
    /\ last.before.status.observedGeneration = last.before.generation
    /\ last.invoked = Pipeline(last.before.instanceSets)
    /\ StatusPatches = {}

\* C8 as stated: an attempt that passes the deletion and reserved-name checks
\* and ends with an in-memory status that differs from the snapshot issues
\* exactly one status patch, under the field owner, and returns that patch's
\* error.
PatchWheneverChanged ==
    (last.line = 252 /\ last.changed) =>
        /\ Cardinality(StatusPatches) = 1
        /\ \A i \in StatusPatches : last.writes[i].owner = Owner
        /\ last.patch = "error" => last.err = PatchErr

\* The strongest of a set of outcomes: immediately if any asks for it, else
\* the smallest delay asked for, else no requeue.
Strongest(S) ==
    IF RequeueNow \in S THEN RequeueNow
    ELSE LET delays == {r.RequeueAfter : r \in S} \ {0}
         IN  IF delays = {} THEN EmptyResult
             ELSE RequeueIn(CHOOSE d \in delays : \A e \in delays : d <= e)

\* C9: whatever outcomes were merged, in whatever order, the result is the
\* strongest of them.
AggregateIsStrongest ==
    aggResult = Strongest({aggInputs[i] : i \in 1..aggDone})

AggregatedFiveSeconds ==
    /\ aggInputs = <<EmptyResult, RequeueIn(30), RequeueIn(5)>>
    /\ aggDone = 3
    /\ aggResult = RequeueIn(5)

\* C10 as stated: when a stage returned an error, the result returned with the
\* error is empty.
ErrorDiscardsOutcome ==
    (Returned /\ last.failed # <<>>) => last.result = EmptyResult

\* C11: an attempt whose Get fails ends at the fetch: it calls no stage, no
\* deletion handling and makes no write, takes no snapshot and returns an
\* empty result; not-found gives a nil error, any other error is returned; and
\* no attempt goes past the fetch after a failed Get.
FetchFailureEndsAttempt ==
    /\ (Returned /\ last.got # NoErr) =>
          /\ last.line = 104
          /\ last.invoked = <<>>
          /\ last.writes = <<>>
          /\ last.handled = NotHandled
          /\ last.before = NoCluster
          /\ last.patch = "none"
          /\ last.result = EmptyResult
          /\ last.got = NotFoundErr => last.err = NoErr
          /\ last.got # NotFoundErr => last.err = last.got
    /\ last.line = 104 => last.got # NoErr

NotFoundIgnored ==
    /\ last.line = 104
    /\ last.got = NotFoundErr
    /\ last.err = NoErr

\* C12: when handleDelete returns an error, whatever result came with it,
\* Reconcile returns that error and an empty result.
DeletionErrorIsBare ==
    (Returned /\ last.handled.err # NoErr) =>
        /\ last.line = 126
        /\ last.err = last.handled.err
        /\ last.result = EmptyResult

DeletionFailedWithDelay ==
    /\ last.line = 126
    /\ last.handled = [res |-> <<RequeueIn(30)>>, err |-> DeleteErr]
    /\ last.result = EmptyResult

\* The declared order of the stages for n instance sets.
DeclaredOrder(n) ==
    << <<"reconcilePatroniStatus", 0>>,
       <<"reconcilePGUserSecret", 0>>,
       <<"reconcileClusterConfigMap", 0>>,
       <<"reconcileRootCertificate", 0>>,
       <<"reconcileClusterPodService", 0>>,
       <<"reconcilePatroniLeaderLease", 0>>,
       <<"reconcileClusterPrimaryService", 0>>,
       <<"reconcileClusterCertificate", 0>>,
       <<"reconcilePatroniDistributedConfiguration", 0>>,
       <<"reconcilePatroniDynamicConfiguration", 0>> >>
      \o [i \in 1..n |-> <<"reconcileInstanceSet", i>>]
      \o << <<"reconcilePGBackRest", 0>>, <<"reconcilePGBouncer", 0>> >>

IsPrefix(a, b) == Len(a) <= Len(b) /\ a = SubSeq(b, 1, Len(a))

\* calls is a prefix of the declared order, holds no stage twice, and every
\* stage in it was called after each stage it consumes had succeeded.
InOrder(calls, fails, n) ==
    /\ IsPrefix(calls, DeclaredOrder(n))
    /\ \A j, k \in 1..Len(calls) : calls[j] = calls[k] => j = k
    /\ \A k \in 1..Len(calls) :
          \A p \in Consumes(calls[k], n) :
              /\ \E j \in 1..(k - 1) : calls[j] = p
              /\ \A j \in 1..Len(fails) : fails[j] # p

\* C17: in every attempt, while it runs and when it returns, the stages called
\* form a prefix of the declared order with no stage called twice, and a stage
\* that takes an earlier stage's output is called only after that stage
\* succeeded in the attempt.
StagesInOrder ==
    /\ \A w \in Workers : InOrder(invoked[w], failed[w], cluster[w].instanceSets)
    /\ Returned => InOrder(last.invoked, last.failed, last.before.instanceSets)

RootCertificateFailed ==
    /\ last.line = 252
    /\ last.failed = << <<"reconcileRootCertificate", 0>> >>
    /\ Len(last.invoked) = 4

\* C18: the names passed to the backup stage are those of all instance sets in
\* spec order when every instance-set stage succeeds; when one fails, nothing
\* of its result is collected, nothing is collected for later sets and the
\* backup stage is not called.
NamesOnlyFromSucceededSets ==
    (last.line = 252 /\ Len(last.invoked) > Len(FixedStages)) =>
        LET n == last.before.instanceSets
            bad == {i \in 1..n : \E j \in 1..Len(last.failed) :
                                     last.failed[j] = reconcileInstanceSet(i)}
        IN  /\ bad = {} => last.instancesNames = [i \in 1..n |-> i]
            /\ \A i \in bad :
                  /\ last.instancesNames = [j \in 1..(i - 1) |-> j]
                  /\ \A k \in 1..Len(last.invoked) :
                        last.invoked[k] # reconcilePGBackRest

\* C19: an attempt in which every stage succeeds returns the result the backup
\* stage returned, and an attempt that does not reach the backup stage
\* returns an empty result.
BackupDecidesRequeue ==
    last.line = 252 =>
        /\ (last.failed = <<>> /\ last.invoked # <<>>) =>
              /\ Len(last.reported) = 1
              /\ last.result = last.reported[1]
        /\ last.reported = <<>> => last.result = EmptyResult

BackupAskedForDelay ==
    /\ last.line = 252
    /\ last.failed = <<>>
    /\ last.invoked = Pipeline(2)
    /\ last.reported = <<RequeueIn(30)>>
    /\ last.result = RequeueIn(30)
    /\ last.patch = "ok"

\* C20: when handleDelete returns a result and no error, Reconcile returns
\* exactly that result with a nil error, with V(1) logging on or off.
DeletionOutcomeReturnedAsIs ==
    last.line = 137 =>
        /\ last.err = NoErr
        /\ last.result = last.handled.res[1]

\* C13: after any sequence of setControllerReference and setOwnerReference
\* calls a dependent has at most one controller reference; a
\* setControllerReference call on a dependent controlled by another owner
\* returns an error, leaves the references as they were and writes nothing; a
\* setOwnerReference call makes the Cluster a non-controlling owner and keeps
\* every other reference.
AtMostOneController ==
    /\ Cardinality(ControllersOf(ownerReferences)) <= 1
    /\ ( /\ refCall.fn = "setControllerReference"
         /\ \E i \in ControllersOf(refCall.before) :
               refCall.before[i].owner # refCall.owner )
       => /\ refCall.err # NoErr
          /\ ownerReferences = refCall.before
          /\ refCall.writes = <<>>
    /\ refCall.fn = "setOwnerReference"
       => /\ refCall.err = NoErr
          /\ \E i \in 1..Len(ownerReferences) :
                ownerReferences[i] = [owner |-> refCall.owner, controller |-> FALSE]
          /\ \A i \in 1..Len(refCall.before) :
                refCall.before[i].owner # refCall.owner
                   => ownerReferences[i] = refCall.before[i]

SecondControllerRefused ==
    /\ refCall.fn = "setControllerReference"
    /\ refCall.owner = "demo"
    /\ refCall.err = AlreadyOwnedErr
    /\ Len(ownerReferences) = 3
    /\ \E i \in ControllersOf(ownerReferences) : ownerReferences[i].owner = "other"

\* The four mandatory entries in their fixed order: local peer, replication
\* md5, replication user on database postgres md5, replication user reject.
FourMandatory ==
    << [origin |-> "local", user |-> "postgres", database |-> "",
        method |-> "peer"],
       [origin |-> "host", user |-> PGReplicationUsername,
        database |-> "replication", method |-> "md5"],
       [origin |-> "host", user |-> PGReplicationUsername,
        database |-> "postgres", method |-> "md5"],
       [origin |-> "host", user |-> PGReplicationUsername,
        database |-> "", method |-> "reject"] >>

\* C14: the rule set handed to the ConfigMap stage and to the dynamic
\* configuration stage begins with the four mandatory entries in their order,
\* and every pooler rule and the default TLS md5 rule comes behind them.
MandatoryRulesFirst ==
    \A k \in 1..Len(hbaHanded) :
        LET rules == Rendered(hbaHanded[k])
        IN  /\ Len(rules) > 4
            /\ SubSeq(rules, 1, 4) = FourMandatory
            /\ SubSeq(hbaHanded[k].Mandatory, 1, 4) = FourMandatory
            /\ \A i \in 1..Len(rules) :
                  rules[i] \in PoolerRules \cup {DefaultRule} => i > 4
            /\ \E i \in 5..Len(rules) : rules[i] = DefaultRule

PoolerRulesHanded ==
    /\ Len(hbaHanded) = 2
    /\ hbaHanded[1] = hbaHanded[2]
    /\ Len(hbaHanded[2].Mandatory) = 6
    /\ Len(hbaHanded[2].Default) = 2

\* The keys of the mandatory value-set in ascending order.
MandatoryKeysAscending ==
    << <<"a", "u", "t", "h", "_", "f", "i", "l", "e">>,
       <<"a", "u", "t", "h", "_", "q", "u", "e", "r", "y">>,
       <<"a", "u", "t", "h", "_", "u", "s", "e", "r">>,
       <<"c", "l", "i", "e", "n", "t", "_", "t", "l", "s", "_", "c", "a", "_", "f", "i", "l", "e">>,
       <<"c", "l", "i", "e", "n", "t", "_", "t", "l", "s", "_", "c", "e", "r", "t", "_", "f", "i", "l", "e">>,
       <<"c", "l", "i", "e", "n", "t", "_", "t", "l", "s", "_", "k", "e", "y", "_", "f", "i", "l", "e">>,
       <<"c", "l", "i", "e", "n", "t", "_", "t", "l", "s", "_", "s", "s", "l", "m", "o", "d", "e">>,
       <<"c", "o", "n", "f", "f", "i", "l", "e">>,
       <<"l", "i", "s", "t", "e", "n", "_", "a", "d", "d", "r">>,
       <<"l", "i", "s", "t", "e", "n", "_", "p", "o", "r", "t">>,
       <<"s", "e", "r", "v", "e", "r", "_", "t", "l", "s", "_", "c", "a", "_", "f", "i", "l", "e">>,
       <<"s", "e", "r", "v", "e", "r", "_", "t", "l", "s", "_", "s", "s", "l", "m", "o", "d", "e">>,
       <<"u", "n", "i", "x", "_", "s", "o", "c", "k", "e", "t", "_", "d", "i", "r">> >>

\* C15: every call of clusterINI on the same Cluster returns the same text,
\* however its maps are ranged: the warning, then under a section header the
\* auth_user line, the databases wildcard, under a header the defaults, under
\* a header the mandatory settings; each value-set gives one line per key, in
\* ascending key order.
ClusterINIDeterministic ==
    /\ \A j, k \in 1..Len(iniTexts) : iniTexts[j] = iniTexts[k]
    /\ \A k \in 1..Len(iniTexts) :
          LET t == iniTexts[k]
              n == Len(MandatoryKeysAscending)
          IN  /\ Len(t) = 7 + n
              /\ t[1] = iniGeneratedWarning
              /\ t[2] = SectionHeader
              /\ t[3] = <<<<"a", "u", "t", "h", "_", "u", "s", "e", "r">>, " = ", postgresqlUser, "\n">>
              /\ t[4] = <<"[databases]\n* = host=", iniCluster.service, " port=",
                          IF iniCluster.postgresPort = 5432
                          THEN <<"5", "4", "3", "2">>
                          ELSE <<"1", "5", "4", "3", "2">>, "\n">>
              /\ t[5] = SectionHeader
              /\ t[6] = <<<<"i", "g", "n", "o", "r", "e", "_", "s", "t", "a", "r", "t", "u", "p", "_", "p", "a", "r", "a", "m", "e", "t", "e", "r", "s">>,
                          " = ", "extra_float_digits", "\n">>
              /\ t[7] = SectionHeader
              /\ \A i \in 1..n :
                    /\ t[7 + i][1] = MandatoryKeysAscending[i]
                    /\ t[7 + i] = Line(MandatoryKeysAscending[i],
                                       MapOf(mandatory(iniCluster))[t[7 + i][1]])

RangedBackwards ==
    /\ Len(iniTexts) = 2
    /\ iniOrder[3] = Reverse(KeysOf(mandatory(iniCluster)))
    /\ iniTexts[2][8][1] # iniOrder[3][1]
    /\ iniCluster.pgBouncerPort = 6432

\* How often byte b occurs in text.
Count(text, b) == Cardinality({i \in 1..Len(text) : text[i] = b})

\* text is a user field, one space, a second field and a line feed, the
\* fields between double quotes with every double quote inside doubled, and
\* the second field reads back as pw.
TwoQuotedFields(text, pw) ==
    LET user == ReadField(text, 1)
        pass == ReadField(text, user.next + 1)
    IN  /\ user.next > 0
        /\ user.value = <<postgresqlUser>>
        /\ text[user.next] = " "
        /\ pass.next > 0
        /\ pass.value = pw
        /\ pass.next = Len(text)
        /\ text[Len(text)] = "\n"
        /\ Count(text, "\"") = 4 + 2 * Count(pw, "\"")

\* C16 as stated: for every password the credential file is exactly one
\* line of two quoted fields whose second field reads back as the password.
AuthFileIsOneLine ==
    authFile # <<>> =>
        /\ TwoQuotedFields(authFile, password)
        /\ Count(authFile, "\n") = 1

\* C16: for every password the credential file is one record of two quoted
\* fields ended by a line feed, whose second field reads back as the
\* password; a line feed in the password is written as it is, so the file is
\* one line exactly when the password holds no line feed.
AuthFileIsOneRecord ==
    authFile # <<>> =>
        /\ TwoQuotedFields(authFile, password)
        /\ Count(authFile, "\n") = 1 + Count(password, "\n")

QuoteInPasswordDoubled ==
    /\ password = <<"\"", "\n", "a">>
    /\ authFile = <<"\"", postgresqlUser, "\"", " ",
                    "\"", "\"", "\"", "\n", "a", "\"", "\n">>

====
